---- MODULE Spec2Model ----
(***************************************************************************)
(* The reactive filter-and-render pipeline of pages/01_duckdb.py:          *)
(* the country catalog, the selection cell, the effect load_filtered_data  *)
(* that queries the remote table, and the view that Page renders.          *)
(*                                                                         *)
(* Text is a sequence of character codes.  A country name is the text of   *)
(* the country column; the empty text is Python's "" (falsy).              *)
(***************************************************************************)
EXTENDS Integers, Sequences, FiniteSets, TLC

VARIABLES
    dataset,           \* the remote table behind DATA_URL: a sequence of rows
    all_countries,     \* solara.reactive(ALL_COUNTRYS)
    selected_country,  \* solara.reactive(DEFAULT_COUNTRY)
    data_df,           \* solara.reactive(pd.DataFrame()): a sequence of rows
    prev_deps,         \* the dependencies use_effect stored at the last render
    pc,                \* render loop: "render", "effect" or "idle"
    view,              \* what the last render of Page put on the screen
    escaped,           \* an exception left load_filtered_data
    touched,           \* history: the user has used the selector
    nq,                \* history: con.sql runs of load_filtered_data since the
                       \*   last change of selected_country
    effectRun,         \* history: the last run of load_filtered_data since the
                       \*   last change of selected_country
    rerendered,        \* history: Page was rendered again, with the effect
                       \*   not due, since the last change of selected_country
    memo               \* history: the first successful query of the session,
                       \*   its country and the rows it returned

vars == <<dataset, all_countries, selected_country, data_df, prev_deps, pc,
          view, escaped, touched, nq, effectRun, rerendered, memo>>

(***************************************************************************)
(* Bounds of the model.                                                    *)
(***************************************************************************)
\* plain one-letter country names besides "USA"
NumPlain == 1
\* editions of the remote table; edition e holds e rows per country
NumEditions == 2
\* populations are row index modulo PopClasses (ties among many rows)
PopClasses == 3
\* rows per country beyond LIMIT in the large tables
ExtraRows == 1
\* nq saturates here
QueryCap == 3

(***************************************************************************)
(* Text.                                                                   *)
(***************************************************************************)
\* the character ' that delimits the SQL literal in the query text
Apostrophe == 39
\* stands for the text " OR country=" (it begins with a space, which sorts
\* before the apostrophe)
OrCountryEq == Apostrophe - 7
\* the empty string ""
Blank == <<>>
\* the string "USA"
USA == <<85, 83, 65>>
\* the LIMIT of the query
LIMIT == 20

Range(s) == {s[i] : i \in 1..Len(s)}

Min(a, b) == IF a < b THEN a ELSE b

Take(s, n) == SubSeq(s, 1, Min(n, Len(s)))

\* code-point order of two texts (ORDER BY country)
RECURSIVE LexLess(_, _)
LexLess(a, b) ==
    IF b = <<>> THEN FALSE
    ELSE IF a = <<>> THEN TRUE
    ELSE IF Head(a) # Head(b) THEN Head(a) < Head(b)
    ELSE LexLess(Tail(a), Tail(b))

(***************************************************************************)
(* Tables.  A row is [name, country, population]; name is the row's        *)
(* position among the rows of its country.                                 *)
(***************************************************************************)
Plain(k) == <<66 + k>>
\* a name with an unbalanced apostrophe, such as  C'
Broken(k) == Plain(k) \o <<Apostrophe>>
\* a name that closes the literal and continues the condition:
\*   C' OR country='USA
Crafted(k) == Plain(k) \o <<Apostrophe, OrCountryEq, Apostrophe>> \o USA

Population(i) == i % PopClasses

Block(c, n) == [i \in 1..n |-> [name |-> i, country |-> c, population |-> Population(i)]]

RECURSIVE Concat(_, _, _)
Concat(names, present, n) ==
    IF names = <<>> THEN <<>>
    ELSE (IF Head(names) \in present THEN Block(Head(names), n) ELSE <<>>)
         \o Concat(Tail(names), present, n)

\* the names of the small tables, in file order
SmallNames == <<USA>> \o [k \in 1..NumPlain |-> Plain(k)] \o <<Blank>>

\* the names of the large tables, in file order
QueryNames ==
    <<USA>> \o [k \in 1..NumPlain |-> Crafted(k)] \o [k \in 1..NumPlain |-> Plain(k)]
    \o [k \in 1..NumPlain |-> Broken(k)]

SmallDatasets ==
    {Concat(SmallNames, present, e) : present \in SUBSET Range(SmallNames), e \in 1..NumEditions}

QueryDatasets ==
    {Concat(QueryNames, present, LIMIT + ExtraRows) : present \in SUBSET Range(QueryNames)}

EmptyDF == <<>>

Countries(ds) == {ds[i].country : i \in 1..Len(ds)}

(***************************************************************************)
(* Module level: the catalog and the default country.                      *)
(***************************************************************************)
RECURSIVE OrderBy(_)
OrderBy(S) ==
    IF S = {} THEN <<>>
    ELSE LET m == CHOOSE x \in S : \A y \in S \ {x} : LexLess(x, y)
         IN  <<m>> \o OrderBy(S \ {m})

\* SELECT DISTINCT country FROM ... ORDER BY country
ALL_COUNTRYS(ds) == OrderBy(Countries(ds))

DefaultFirst(catalog) == IF catalog # <<>> THEN catalog[1] ELSE Blank

DEFAULT_COUNTRY(catalog) ==
    IF USA \in Range(catalog) THEN USA
    ELSE IF catalog # <<>> THEN catalog[1] ELSE Blank

(***************************************************************************)
(* The query of load_filtered_data.                                        *)
(***************************************************************************)
\* the text the f-string puts after "WHERE country = "
WhereText(country_name) == <<Apostrophe>> \o country_name \o <<Apostrophe>>

\* a string literal whose opening apostrophe was read; i is the next
\* position.  Two apostrophes inside a literal stand for one.
RECURSIVE ReadLiteral(_, _, _)
ReadLiteral(text, i, acc) ==
    IF i > Len(text) THEN [ok |-> FALSE, lit |-> acc, next |-> i]
    ELSE IF text[i] = Apostrophe
         THEN IF i + 1 <= Len(text) /\ text[i + 1] = Apostrophe
              THEN ReadLiteral(text, i + 2, Append(acc, Apostrophe))
              ELSE [ok |-> TRUE, lit |-> acc, next |-> i + 1]
         ELSE ReadLiteral(text, i + 1, Append(acc, text[i]))

\* country = 'l1' OR country='l2' ...: the literals, or a syntax error
RECURSIVE ParseWhere(_, _, _)
ParseWhere(text, i, lits) ==
    IF i > Len(text) \/ text[i] # Apostrophe THEN [ok |-> FALSE, lits |-> {}]
    ELSE LET r == ReadLiteral(text, i + 1, <<>>)
         IN  IF ~r.ok THEN [ok |-> FALSE, lits |-> {}]
             ELSE IF r.next > Len(text) THEN [ok |-> TRUE, lits |-> lits \cup {r.lit}]
             ELSE IF text[r.next] = OrCountryEq
                  THEN ParseWhere(text, r.next + 1, lits \cup {r.lit})
                  ELSE [ok |-> FALSE, lits |-> {}]

TieOrders == {"file", "reverse"}

\* one row into a sequence that is in non-increasing order of population;
\* the order among equal populations is the engine's choice
RECURSIVE Insert(_, _, _)
Insert(row, sorted, tie) ==
    IF sorted = <<>> THEN <<row>>
    ELSE IF \/ Head(sorted).population > row.population
            \/ (tie = "file" /\ Head(sorted).population = row.population)
         THEN <<Head(sorted)>> \o Insert(row, Tail(sorted), tie)
         ELSE <<row>> \o sorted

RECURSIVE OrderByPopulationDesc(_, _)
OrderByPopulationDesc(rows, tie) ==
    IF rows = <<>> THEN <<>>
    ELSE Insert(rows[Len(rows)], OrderByPopulationDesc(SubSeq(rows, 1, Len(rows) - 1), tie), tie)

Where(ds, lits) == SelectSeq(ds, LAMBDA row : row.country \in lits)

\* the SELECT of lines 45-51 run on table ds
RunSQL(ds, country_name, tie) ==
    LET q == ParseWhere(WhereText(country_name), 1, {})
    IN  IF ~q.ok THEN [ok |-> FALSE, df |-> EmptyDF]
        ELSE [ok |-> TRUE, df |-> Take(OrderByPopulationDesc(Where(ds, q.lits), tie), LIMIT)]

\* con.sql(sql_query).df() served from a cache that is filled once
CachedQuery(ds, country_name, tie) ==
    IF memo.has /\ memo.country = country_name THEN [ok |-> TRUE, df |-> memo.rows]
    ELSE RunSQL(ds, country_name, tie)

\* con.sql(sql_query).df(): every call runs the query on the table as it is
ExecQuery(ds, country_name, tie) == RunSQL(ds, country_name, tie)

\* if not country_name: return
ShouldReturn(country_name) == country_name = Blank

KeepWhenEmpty(old, df_result) == IF df_result = EmptyDF THEN old ELSE df_result

\* data_df.set(df_result)
OnSuccess(old, df_result) == df_result

Propagate(old) == [df |-> old, raised |-> TRUE]

\* except Exception: data_df.set(pd.DataFrame())
OnError(old) == [df |-> EmptyDF, raised |-> FALSE]

(***************************************************************************)
(* Page.                                                                   *)
(***************************************************************************)
NoDeps == <<>>

EffectAlways(prev, deps) == TRUE

EffectOnMount(prev, deps) == prev = NoDeps

\* use_effect(load_filtered_data, dependencies=[selected_country.value]):
\* the effect runs after the first render and after a render whose
\* dependencies differ from those of the render before
EffectDue(prev, deps) == prev = NoDeps \/ prev # deps

NoMap == [warning |-> FALSE, country |-> Blank, figure |-> "none", rows |-> EmptyDF]

CityMapPlotly(df, country) ==
    IF df = EmptyDF
    THEN [warning |-> TRUE, country |-> country, figure |-> "placeholder", rows |-> EmptyDF]
    ELSE [warning |-> FALSE, country |-> country, figure |-> "scatter_geo", rows |-> df]

NoView ==
    [kind |-> "none", selector |-> <<>>, country |-> Blank, map |-> NoMap,
     table |-> EmptyDF, bar_title |-> Blank]

\* the body of Page: the selector, then one of three branches
PageView(countries, country, df) ==
    IF country # Blank /\ df # EmptyDF
    THEN [kind |-> "populated", selector |-> countries, country |-> country,
          map |-> CityMapPlotly(df, country), table |-> df, bar_title |-> country]
    ELSE IF country # Blank
    THEN [kind |-> "loading_data", selector |-> countries, country |-> country,
          map |-> NoMap, table |-> EmptyDF, bar_title |-> Blank]
    ELSE [kind |-> "loading_catalog", selector |-> countries, country |-> country,
          map |-> NoMap, table |-> EmptyDF, bar_title |-> Blank]

NoRun ==
    [ran |-> FALSE, country |-> Blank, queried |-> FALSE, failed |-> FALSE,
     returned |-> EmptyDF, matching |-> EmptyDF, fresh |-> {}]

NoEntry == [has |-> FALSE, country |-> Blank, rows |-> EmptyDF]

Bump(n) == IF n < QueryCap THEN n + 1 ELSE n

(***************************************************************************)
(* Initial states: the module has been imported on table ds.               *)
(***************************************************************************)
InitWith(ds) ==
    /\ dataset = ds
    /\ all_countries = ALL_COUNTRYS(ds)
    /\ selected_country = DEFAULT_COUNTRY(ALL_COUNTRYS(ds))
    /\ data_df = EmptyDF
    /\ prev_deps = NoDeps
    /\ pc = "render"
    /\ view = NoView
    /\ escaped = FALSE
    /\ touched = FALSE
    /\ nq = 0
    /\ rerendered = FALSE
    /\ effectRun = NoRun
    /\ memo = NoEntry

Init == \E ds \in SmallDatasets : InitWith(ds)

InitQuery == \E ds \in QueryDatasets : InitWith(ds)

(***************************************************************************)
(* Actions.                                                                *)
(***************************************************************************)
\* one run of the body of Page
Render ==
    /\ pc = "render"
    /\ view' = PageView(all_countries, selected_country, data_df)
    /\ prev_deps' = <<selected_country>>
    /\ pc' = IF EffectDue(prev_deps, <<selected_country>>) THEN "effect" ELSE "idle"
    /\ rerendered' = (rerendered \/ ~EffectDue(prev_deps, <<selected_country>>))
    /\ UNCHANGED <<dataset, all_countries, selected_country, data_df, escaped,
                   touched, nq, effectRun, memo>>

\* load_filtered_data, run by the framework after the render
RunEffect ==
    /\ pc = "effect"
    /\ LET country_name == selected_country IN
       IF ShouldReturn(country_name)
       THEN /\ pc' = "idle"
            /\ effectRun' = [NoRun EXCEPT !.ran = TRUE, !.country = country_name]
            /\ UNCHANGED <<data_df, escaped, nq, memo>>
       ELSE \E reachable \in BOOLEAN, tie \in TieOrders :
              LET r == IF reachable THEN ExecQuery(dataset, country_name, tie)
                       ELSE [ok |-> FALSE, df |-> EmptyDF]
                  out == IF r.ok THEN [df |-> OnSuccess(data_df, r.df), raised |-> FALSE]
                         ELSE OnError(data_df)
              IN  /\ data_df' = out.df
                  /\ escaped' = (escaped \/ out.raised)
                  /\ nq' = Bump(nq)
                  /\ memo' = IF r.ok /\ ~memo.has
                             THEN [has |-> TRUE, country |-> country_name, rows |-> r.df]
                             ELSE memo
                  /\ effectRun' =
                        [ran |-> TRUE, country |-> country_name, queried |-> TRUE,
                         failed |-> ~r.ok, returned |-> r.df,
                         matching |-> SelectSeq(dataset, LAMBDA row : row.country = country_name),
                         fresh |-> {RunSQL(dataset, country_name, t).df : t \in TieOrders}]
                  \* a reactive cell notifies its readers when its value changes
                  /\ pc' = IF out.df # data_df THEN "render" ELSE "idle"
    /\ UNCHANGED <<dataset, all_countries, selected_country, prev_deps, view,
                   touched, rerendered>>

\* the user picks c in solara.Select, which sets selected_country
SelectCountry(c) ==
    /\ pc = "idle"
    /\ c \in Range(all_countries)
    /\ c # selected_country
    /\ selected_country' = c
    /\ pc' = "render"
    /\ touched' = TRUE
    /\ nq' = 0
    /\ rerendered' = FALSE
    /\ effectRun' = NoRun
    /\ UNCHANGED <<dataset, all_countries, data_df, prev_deps, view, escaped, memo>>

\* a render of Page that no change of selected_country asked for
Rerender ==
    /\ pc = "idle"
    /\ pc' = "render"
    /\ UNCHANGED <<dataset, all_countries, selected_country, data_df, prev_deps,
                   view, escaped, touched, nq, effectRun, rerendered, memo>>

\* the remote file is replaced.  Only load_filtered_data reads the table
\* after start-up, so a replacement is taken where it can be observed:
\* before a run of the effect that is due
DatasetChanges ==
    /\ pc = "effect"
    /\ dataset' \in SmallDatasets \ {dataset}
    /\ UNCHANGED <<all_countries, selected_country, data_df, prev_deps, pc, view,
                   escaped, touched, nq, effectRun, rerendered, memo>>

Next ==
    \/ Render
    \/ RunEffect
    \/ \E c \in Range(SmallNames) : SelectCountry(c)
    \/ Rerender
    \/ DatasetChanges

Spec == Init /\ [][Next]_vars

NextQuery ==
    \/ Render
    \/ RunEffect
    \/ \E c \in Range(QueryNames) : SelectCountry(c)
    \/ Rerender

QuerySpec == InitQuery /\ [][NextQuery]_vars

(***************************************************************************)
(* Properties.                                                             *)
(***************************************************************************)
Idle == pc = "idle"

\* df is what the contract of the query asks for country c, whose rows in
\* the table are `matching`: only rows of c, each a row of the table and
\* none twice, in non-increasing order of population, the first LIMIT of
\* them (no row left out has a larger population than a row kept)
TopRows(df, matching, c) ==
    /\ \A i \in 1..Len(df) : df[i].country = c /\ df[i] \in Range(matching)
    /\ \A i, j \in 1..Len(df) : i < j => df[i] # df[j] /\ df[i].population >= df[j].population
    /\ Len(df) = Min(LIMIT, Len(matching))
    /\ \A row \in Range(matching) \ Range(df) :
          \A i \in 1..Len(df) : df[i].population >= row.population

\* C1: between two changes of selected_country the effect executes con.sql
\* at most once, however often Page is rendered again.
C1_AtMostOneQueryPerChange == nq <= 1

\* C1 witness: one query ran for the selection and Page was rendered again
\* afterwards (the render that data_df.set caused shows the rows).
C1_Witness == Idle /\ rerendered /\ nq = 1 /\ view.kind = "populated" /\ view.table = data_df

\* C2: a failed query leaves data_df empty, raises nothing to the caller
\* and leaves selected_country as it was.
C2_FailureGivesEmpty ==
    (effectRun.ran /\ effectRun.failed) =>
        /\ data_df = EmptyDF
        /\ ~escaped
        /\ selected_country = effectRun.country

\* C2 witness: the query failed while data_df held rows of an earlier
\* selection; the rows are gone and a render is due.
C2_Witness ==
    /\ effectRun.ran /\ effectRun.failed
    /\ selected_country # Blank
    /\ pc = "render"
    /\ view.kind = "populated"

\* C3: once the effect has run for a non-empty selection and the result is
\* empty, Page shows the warning naming the country and the placeholder
\* figure, and no loading message.
C3_EmptyStateShown ==
    (Idle /\ selected_country # Blank /\ effectRun.ran /\ data_df = EmptyDF) =>
        /\ view.kind # "loading_data"
        /\ view.map.warning
        /\ view.map.country = selected_country
        /\ view.map.figure = "placeholder"

\* C4: when load_filtered_data has run with the empty selection, it issued
\* no query and data_df is empty, whatever it held before.
C4_SentinelGivesEmpty ==
    (effectRun.ran /\ effectRun.country = Blank) =>
        /\ ~effectRun.queried /\ nq = 0
        /\ data_df = EmptyDF

\* C5: the rows kept for a selection are those of a query run on the table
\* as it was when the effect ran for this selection, also when the country
\* was selected before and the table has changed since.
C5_NoStaleRows ==
    (effectRun.ran /\ effectRun.queried /\ ~effectRun.failed) =>
        /\ data_df \in effectRun.fresh
        /\ nq = 1

\* C5 witness: the selection is back on a country queried before, and
\* data_df holds rows that differ from the rows of its first query.
C5_Witness ==
    /\ Idle /\ selected_country # Blank
    /\ effectRun.ran /\ ~effectRun.failed
    /\ memo.has /\ memo.country = selected_country
    /\ memo.rows # EmptyDF
    /\ data_df # EmptyDF
    /\ data_df # memo.rows

\* C6: a successful query for a country c of the catalog stores exactly the
\* rows whose country equals c, by non-increasing population, the first 20.
C6_RowsOfCountry ==
    (effectRun.ran /\ effectRun.queried /\ ~effectRun.failed) =>
        TopRows(data_df, effectRun.matching, effectRun.country)

\* C7: the catalog is in strictly increasing alphabetical order (sorted, no
\* duplicates), and until the user selects, the selection is "USA" if the
\* catalog has it, else the first entry, else "".
C7_CatalogAndDefault ==
    /\ \A i, j \in 1..Len(all_countries) :
          i < j => LexLess(all_countries[i], all_countries[j])
    /\ ~touched =>
          /\ USA \in Range(all_countries) => selected_country = USA
          /\ (USA \notin Range(all_countries) /\ Len(all_countries) > 0)
                => selected_country = Head(all_countries)
          /\ Len(all_countries) = 0 => selected_country = Blank
          /\ selected_country \in Range(all_countries) \cup {Blank}

\* C7 witness: a catalog of two or more countries without "USA" whose
\* first entry is the initial selection.
C7_Witness ==
    /\ ~touched /\ Idle
    /\ USA \notin Range(all_countries)
    /\ Len(all_countries) >= 2
    /\ selected_country = all_countries[1]

\* C8: once the render loop has settled on a non-empty selection, exactly
\* one query ran since the selection changed, and a run of the effect is
\* always for the value selected when it ran.
C8_ExactlyOneQueryPerChange ==
    /\ (Idle /\ selected_country # Blank) =>
          /\ nq = 1
          /\ effectRun.ran /\ effectRun.queried
    /\ effectRun.ran => effectRun.country = selected_country

\* C8 witness: the user changed the selection to a country and one query
\* ran for it.
C8_Witness ==
    /\ Idle /\ touched /\ selected_country # Blank
    /\ nq = 1 /\ effectRun.country = selected_country

\* C9: a populated view shows only rows of the country it is titled with.
C9_PopulatedRowsOfSelection ==
    view.kind = "populated" =>
        \A i \in 1..Len(view.table) : view.table[i].country = view.country

\* C10: once the render loop has settled on a non-empty selection, data_df
\* is the outcome of the query run for that selection: the rows it
\* returned, or empty when it failed.
C10_LastWriteWins ==
    (Idle /\ selected_country # Blank) =>
        /\ effectRun.ran /\ effectRun.country = selected_country
        /\ data_df = (IF effectRun.failed THEN EmptyDF ELSE effectRun.returned)

\* C10 witness: after queries for two countries, the loop has settled and
\* data_df holds the rows of the one selected now.
C10_Witness ==
    /\ Idle /\ touched /\ selected_country # Blank
    /\ data_df # EmptyDF
    /\ memo.has /\ memo.country # selected_country /\ memo.rows # EmptyDF
    /\ \A i \in 1..Len(data_df) : data_df[i].country = selected_country

====
